---- MODULE Spec2Model ----
(***************************************************************************)
(* Model of the weather-forecast module of ShoreSquad (src/js/app.js):     *)
(* WeatherManager (fetch, single-entry cache, fallback, rendering), the    *)
(* debounce helper behind loadWeatherData, and the init/setInterval        *)
(* schedule.  The event loop is modelled as one action per handler: each   *)
(* continuation of the async fetchWeather after an await is a handler.     *)
(***************************************************************************)
EXTENDS Integers, Sequences, FiniteSets, TLC

VARIABLES
    clock,          \* Date.now(), in ms
    weatherGrid,    \* TRUE iff document.getElementById('weather-grid') found an element
    weatherCache,   \* this.weatherCache: Null or Some(array of ForecastDay)
    lastFetchTime,  \* this.lastFetchTime
    timeoutId,      \* debounce closure variable: deadline of the timer it names, or NoTimer
    timers,         \* pending setTimeout timers of the debounce closure (by deadline)
    intervalDue,    \* deadline of the next setInterval tick, NoTimer before init()
    inflight,       \* suspended fetchWeather executions, in start order
    display,        \* weatherGrid.innerHTML
    log,            \* what the last handler did: calls, console lines, announcements
    burst           \* loadWeatherData calls whose timer has not fired yet

vars == <<clock, weatherGrid, weatherCache, lastFetchTime, timeoutId, timers,
          intervalDue, inflight, display, log, burst>>

----------------------------------------------------------------------------
(* CONFIG *)

DEBOUNCE_DELAY == 300
WEATHER_CACHE_TIME == 600000

----------------------------------------------------------------------------
(* Bounds of the model *)

StartTime == 1000000     \* Date.now() when the page starts
Gap == 50                \* ms between two calls of loadWeatherData
MaxPeriods == 1          \* interval periods explored
MaxInFlight == 2         \* overlapping fetchWeather executions
MaxBurst == 2            \* loadWeatherData calls in one burst

\* The sampled instants.  In the first interval period: the instants at which
\* loadWeatherData can be called and those at which its timer can fire.  In
\* each later period: the instant of the tick and one instant Gap after it.
CallOffsets == {0, Gap}
Offsets == CallOffsets \cup {o + DEBOUNCE_DELAY : o \in CallOffsets}
Instants == {StartTime + o : o \in Offsets}
            \cup {StartTime + k * WEATHER_CACHE_TIME + o : k \in 1..MaxPeriods,
                                                           o \in CallOffsets}

NoTimer == -1

----------------------------------------------------------------------------
(* JavaScript strings: the spelling of every string the string functions   *)
(* (toLowerCase, includes) are applied to                                  *)

Keywords == {"sunny", "fine", "partly", "cloudy", "overcast", "rain",
             "thunder", "storm", "showers", "wind"}

Texts == {"Sunny", "Partly cloudy", "Thundery showers", "Rainy",
          "FINE", "Overcast", "Thunder and rain", "Light showers",
          "Windy", "Fair", "Stormy", "Rainy showers", "Rain then sunny"}

Spell(s) ==
    CASE s = "sunny"    -> <<"s","u","n","n","y">>
      [] s = "fine"     -> <<"f","i","n","e">>
      [] s = "partly"   -> <<"p","a","r","t","l","y">>
      [] s = "cloudy"   -> <<"c","l","o","u","d","y">>
      [] s = "overcast" -> <<"o","v","e","r","c","a","s","t">>
      [] s = "rain"     -> <<"r","a","i","n">>
      [] s = "thunder"  -> <<"t","h","u","n","d","e","r">>
      [] s = "storm"    -> <<"s","t","o","r","m">>
      [] s = "showers"  -> <<"s","h","o","w","e","r","s">>
      [] s = "wind"     -> <<"w","i","n","d">>
      [] s = "Sunny"    -> <<"S","u","n","n","y">>
      [] s = "Partly cloudy" -> <<"P","a","r","t","l","y"," ","c","l","o","u","d","y">>
      [] s = "Thundery showers" ->
             <<"T","h","u","n","d","e","r","y"," ","s","h","o","w","e","r","s">>
      [] s = "Rainy"    -> <<"R","a","i","n","y">>
      [] s = "FINE"     -> <<"F","I","N","E">>
      [] s = "Overcast" -> <<"O","v","e","r","c","a","s","t">>
      [] s = "Thunder and rain" ->
             <<"T","h","u","n","d","e","r"," ","a","n","d"," ","r","a","i","n">>
      [] s = "Light showers" -> <<"L","i","g","h","t"," ","s","h","o","w","e","r","s">>
      [] s = "Windy"    -> <<"W","i","n","d","y">>
      [] s = "Fair"     -> <<"F","a","i","r">>
      [] s = "Stormy"   -> <<"S","t","o","r","m","y">>
      [] s = "Rainy showers" -> <<"R","a","i","n","y"," ","s","h","o","w","e","r","s">>
      [] s = "Rain then sunny" ->
             <<"R","a","i","n"," ","t","h","e","n"," ","s","u","n","n","y">>

UpperCase == <<"A","B","C","D","E","F","G","H","I","J","K","L","M",
               "N","O","P","Q","R","S","T","U","V","W","X","Y","Z">>
LowerCase == <<"a","b","c","d","e","f","g","h","i","j","k","l","m",
               "n","o","p","q","r","s","t","u","v","w","x","y","z">>

\* String.prototype.toLowerCase, on a spelled string
toLowerCase(chars) ==
    [i \in 1..Len(chars) |->
        IF \E k \in 1..26 : UpperCase[k] = chars[i]
        THEN LowerCase[CHOOSE k \in 1..26 : UpperCase[k] = chars[i]]
        ELSE chars[i]]

\* String.prototype.includes, on spelled strings
includes(text, pat) ==
    \E i \in 0..(Len(text) - Len(pat)) :
        \A j \in 1..Len(pat) : text[i + j] = pat[j]

----------------------------------------------------------------------------
(* Dates.  A Date is modelled by its calendar day, counted from the epoch  *)

MsPerDay == 24 * 60 * 60 * 1000

\* new Date(): the calendar day of the instant t
Today(t) == t \div MsPerDay

WeekdayShort == <<"Thu", "Fri", "Sat", "Sun", "Mon", "Tue", "Wed">>
MonthDay == <<"1 Jan", "2 Jan", "3 Jan", "4 Jan", "5 Jan", "6 Jan", "7 Jan">>

\* date.toLocaleDateString('en-SG', { weekday: 'short' })
toWeekdayString(date) == WeekdayShort[(date % 7) + 1]

\* date.toLocaleDateString('en-SG', { month: 'short', day: 'numeric' })
toMonthDayString(date) == MonthDay[date + 1]

\* formatDay(date), called at instant t
formatDay(date, t) ==
    LET today == Today(t)
        tomorrow == today + 1
    IN  IF date = today THEN "Today"
        ELSE IF date = tomorrow THEN "Tomorrow"
        ELSE toWeekdayString(date)

----------------------------------------------------------------------------
(* Condition and emoji mapping *)

\* The mutant tests the rain keyword ahead of sunny and fine
mapWeatherConditionRainFirst(forecast) ==
    LET text == toLowerCase(Spell(forecast))
        has(k) == includes(text, Spell(k))
    IN  IF has("rain") THEN "Rainy"
        ELSE IF has("sunny") \/ has("fine") THEN "Sunny"
        ELSE IF has("partly") THEN "Partly Cloudy"
        ELSE IF has("cloudy") \/ has("overcast") THEN "Cloudy"
        ELSE IF has("thunder") \/ has("storm") THEN "Thundery"
        ELSE IF has("showers") THEN "Showers"
        ELSE IF has("wind") THEN "Windy"
        ELSE forecast

mapWeatherCondition(forecast) ==
    LET text == toLowerCase(Spell(forecast))
        has(k) == includes(text, Spell(k))
    IN  IF has("sunny") \/ has("fine") THEN "Sunny"
        ELSE IF has("partly") THEN "Partly Cloudy"
        ELSE IF has("cloudy") \/ has("overcast") THEN "Cloudy"
        ELSE IF has("rain") THEN "Rainy"
        ELSE IF has("thunder") \/ has("storm") THEN "Thundery"
        ELSE IF has("showers") THEN "Showers"
        ELSE IF has("wind") THEN "Windy"
        ELSE forecast

\* The emoji are named, not spelled: sun, sun behind cloud, cloud, thunderstorm,
\* rain cloud, wind, sun behind small cloud
getWeatherEmoji(forecast) ==
    LET text == toLowerCase(Spell(forecast))
        has(k) == includes(text, Spell(k))
    IN  IF has("sunny") \/ has("fine") THEN "sun"
        ELSE IF has("partly") THEN "sun behind cloud"
        ELSE IF has("cloudy") \/ has("overcast") THEN "cloud"
        ELSE IF has("thunder") \/ has("storm") THEN "thunderstorm"
        ELSE IF has("showers") THEN "rain cloud"
        ELSE IF has("rain") THEN "rain cloud"
        ELSE IF has("wind") THEN "wind"
        ELSE "sun behind small cloud"

\* The two mappings, tabulated over the texts of the model
ConditionOf == [forecast \in Texts |-> mapWeatherCondition(forecast)]
EmojiOf == [forecast \in Texts |-> getWeatherEmoji(forecast)]

getSimulatedWeather ==
    << [day |-> "Today", date |-> "Dec 2", condition |-> "Sunny",
        emoji |-> "sun", forecast |-> "Sunny"],
       [day |-> "Tomorrow", date |-> "Dec 3", condition |-> "Partly Cloudy",
        emoji |-> "sun behind cloud", forecast |-> "Partly cloudy"],
       [day |-> "Wednesday", date |-> "Dec 4", condition |-> "Thundery",
        emoji |-> "thunderstorm", forecast |-> "Thundery showers"],
       [day |-> "Thursday", date |-> "Dec 5", condition |-> "Rainy",
        emoji |-> "rain cloud", forecast |-> "Rainy"] >>

----------------------------------------------------------------------------
(* Response bodies.  A body is what response.json() has to parse:          *)
(*   json  = "malformed" (json() rejects), "null" (the JSON value null),   *)
(*           "object"                                                      *)
(*   hasItems: the object has an items array;  items: that array           *)
(* An item is [hasForecasts, forecasts]; a forecast entry is               *)
(* [isString, forecast]: isString is FALSE when the entry has no string    *)
(* forecast field.                                                         *)

Entry(t) == [isString |-> TRUE, forecast |-> t]
BadEntry == [isString |-> FALSE, forecast |-> ""]
Item(fs) == [hasForecasts |-> TRUE, forecasts |-> fs]
ItemWithoutForecasts == [hasForecasts |-> FALSE, forecasts |-> <<>>]
Object(items) == [json |-> "object", hasItems |-> TRUE, items |-> items]

Entries(ts) == [i \in 1..Len(ts) |-> Entry(ts[i])]

DocExample == <<"Sunny", "Partly cloudy", "Thundery showers", "Rainy">>
Mixed == <<"FINE", "Overcast", "Thunder and rain", "Light showers">>
FiveDays == <<"Sunny", "Partly cloudy", "Thundery showers", "Rainy", "Windy">>
TwoDays == <<"Sunny", "Rainy">>
Assorted == <<"Rain then sunny", "Windy", "Stormy", "Fair">>

Bodies ==
    { [json |-> "malformed", hasItems |-> FALSE, items |-> <<>>],
      [json |-> "null", hasItems |-> FALSE, items |-> <<>>],
      [json |-> "object", hasItems |-> FALSE, items |-> <<>>],
      Object(<<>>),
      Object(<<ItemWithoutForecasts>>),
      Object(<<Item(Entries(DocExample))>>),
      Object(<<Item(Entries(Mixed)), Item(Entries(DocExample))>>),
      Object(<<Item(Entries(FiveDays))>>),
      Object(<<Item(Entries(TwoDays))>>),
      Object(<<Item(Entries(Assorted))>>),
      Object(<<Item(<<>>)>>),
      Object(<<Item(<<Entry("Sunny"), BadEntry, Entry("Rainy"), Entry("Fair")>>)>>) }

\* How the first await of an execution can settle: fetch() rejects, or
\* resolves with a response that is not ok, or with one that is ok
FetchOutcomes == {"reject", "status", "ok"}

\* forecast.forecasts.slice(0, 4)
slice4(a) == SubSeq(a, 1, IF Len(a) < 4 THEN Len(a) ELSE 4)

\* The try block of parseNEAResponse throws (TypeError)
ParseThrows(data) ==
    \/ data.json = "null"
    \/ /\ data.hasItems
       /\ Len(data.items) > 0
       /\ \/ ~data.items[1].hasForecasts
          \/ \E i \in 1..Len(slice4(data.items[1].forecasts)) :
                ~data.items[1].forecasts[i].isString

\* parseNEAResponse(data), called at instant t
parseNEAResponse(data, t) ==
    IF ParseThrows(data) THEN getSimulatedWeather
    ELSE IF ~data.hasItems \/ Len(data.items) = 0 THEN getSimulatedWeather
    ELSE LET forecast == data.items[1]
             days == slice4(forecast.forecasts)
         IN  [i \in 1..Len(days) |->
                LET index == i - 1
                    forecastDate == Today(t) + index
                IN  [day |-> formatDay(forecastDate, t),
                     date |-> toMonthDayString(forecastDate),
                     condition |-> ConditionOf[days[i].forecast],
                     forecast |-> days[i].forecast,
                     emoji |-> EmojiOf[days[i].forecast]]]

----------------------------------------------------------------------------
(* State of the WeatherManager *)

Null == [null |-> TRUE, data |-> <<>>]
Some(d) == [null |-> FALSE, data |-> d]

\* What the handlers do that can be observed from outside
Ev(kind, msg, data) == [kind |-> kind, msg |-> msg, data |-> data]
CallFetchWeather == Ev("fetchWeather", "", <<>>)
Resolved(shape) == Ev("response.json", shape, <<>>)
ConsoleLog(msg) == Ev("console.log", msg, <<>>)
ConsoleWarn(msg) == Ev("console.warn", msg, <<>>)
ConsoleError(msg) == Ev("console.error", msg, <<>>)
Request == Ev("fetch", "GET 4-day-weather-forecast", <<>>)
Announce(msg) == Ev("announceToScreenReader", msg, <<>>)
CallRenderWeather(data) == Ev("renderWeather", "", data)
CallRenderWeatherFallback == Ev("renderWeatherFallback", "", <<>>)

UpdatedMsg == "Weather forecast updated"
DegradedMsg == "Could not load weather data. Showing cached data."

\* weatherGrid.innerHTML
InitialHTML == [kind |-> "initial", cards |-> <<>>]
PlaceholderHTML == [kind |-> "placeholder", cards |-> <<>>]
ForecastTemplateText == "{{ weather.forecast }}"

\* One weather-card of the template in renderWeather
WeatherCard(weather) ==
    [ariaLabel |-> weather.day, h4 |-> weather.day, date |-> weather.date,
     emoji |-> weather.emoji, condition |-> weather.condition,
     text |-> ForecastTemplateText]

WeatherCards(data) == [i \in 1..Len(data) |-> WeatherCard(data[i])]

\* renderWeather(data): the new innerHTML of the grid
renderWeather(data) ==
    IF ~weatherGrid THEN display
    ELSE [kind |-> "cards", cards |-> WeatherCards(data)]

\* renderWeather(data): the call and its console line
renderWeatherLog(data) ==
    <<CallRenderWeather(data)>>
    \o (IF weatherGrid THEN <<ConsoleLog("Weather cards rendered successfully")>> ELSE <<>>)

\* renderWeatherFallback(): the new innerHTML of the grid
renderWeatherFallback ==
    IF ~weatherGrid THEN display ELSE PlaceholderHTML

\* The cache check of fetchWeather; the mutants compare the age otherwise
CacheValidInclusive(now) ==
    /\ ~weatherCache.null
    /\ (now - lastFetchTime) <= WEATHER_CACHE_TIME

CacheValidInverted(now) ==
    /\ ~weatherCache.null
    /\ (now - lastFetchTime) > WEATHER_CACHE_TIME

CacheValid(now) ==
    /\ ~weatherCache.null
    /\ (now - lastFetchTime) < WEATHER_CACHE_TIME

Remove(seq, i) == SubSeq(seq, 1, i - 1) \o SubSeq(seq, i + 1, Len(seq))

\* clearTimeout(id); the mutant leaves the timer pending
clearTimeoutNoop(ts, id) == ts

clearTimeout(ts, id) == ts \ {id}

----------------------------------------------------------------------------
(* fetchWeather *)

\* A suspended execution of fetchWeather: the now it read at its start, and
\* the await it is suspended at (await fetch(...), or await response.json())
AwaitingFetch(now) == [now |-> now, awaiting |-> "fetch"]
AwaitingJson(now) == [now |-> now, awaiting |-> "json"]

\* fetchWeather() up to its first await (or its return on a cache hit):
\* what it does to the grid and to the set of suspended executions
fetchWeather ==
    LET now == clock
    IN  IF CacheValid(now)
        THEN /\ display' = renderWeather(weatherCache.data)
             /\ UNCHANGED inflight
        ELSE /\ Len(inflight) < MaxInFlight
             /\ inflight' = Append(inflight, AwaitingFetch(now))
             /\ UNCHANGED display

\* ... and what it calls and prints
fetchWeatherLog ==
    LET now == clock
    IN  IF CacheValid(now)
        THEN <<CallFetchWeather, ConsoleLog("Using cached weather data")>>
             \o renderWeatherLog(weatherCache.data)
        ELSE <<CallFetchWeather, ConsoleLog("Fetching NEA weather data..."), Request>>

\* The mutant discards the cache entry after rendering it
CatchClearsCache(i, err) ==
    /\ log' = <<ConsoleError(err), Announce(DegradedMsg)>>
              \o (IF ~weatherCache.null
                  THEN renderWeatherLog(weatherCache.data)
                  ELSE <<CallRenderWeatherFallback>>)
    /\ display' = IF ~weatherCache.null
                  THEN renderWeather(weatherCache.data)
                  ELSE renderWeatherFallback
    /\ inflight' = Remove(inflight, i)
    /\ weatherCache' = Null
    /\ lastFetchTime' = 0

\* The catch block of fetchWeather, for the execution inflight[i]
Catch(i, err) ==
    /\ log' = <<ConsoleError(err), Announce(DegradedMsg)>>
              \o (IF ~weatherCache.null
                  THEN renderWeatherLog(weatherCache.data)
                  ELSE <<CallRenderWeatherFallback>>)
    /\ display' = IF ~weatherCache.null
                  THEN renderWeather(weatherCache.data)
                  ELSE renderWeatherFallback
    /\ inflight' = Remove(inflight, i)
    /\ UNCHANGED <<weatherCache, lastFetchTime>>

NetworkError == "TypeError: Failed to fetch"
StatusError == "Error: Weather API error: 503"
SyntaxError == "SyntaxError: Unexpected token"

\* The shape of a response body, as the log names it
Shape(data) ==
    IF data.json # "object" THEN data.json
    ELSE IF ~data.hasItems THEN "no items"
    ELSE IF Len(data.items) = 0 THEN "items: []"
    ELSE IF ~data.items[1].hasForecasts THEN "items[0] without forecasts"
    ELSE IF Len(data.items[1].forecasts) = 0 THEN "forecasts: []"
    ELSE IF Len(data.items[1].forecasts) < 4 THEN "fewer than 4 forecasts"
    ELSE "4 or more forecasts"

\* The mutant stamps the entry with the instant the response was read,
\* not with the instant the execution started
ResumeStampsCompletion(i, data) ==
    LET weatherData == parseNEAResponse(data, clock)
    IN  /\ weatherCache' = Some(weatherData)
        /\ lastFetchTime' = clock
        /\ display' = renderWeather(weatherData)
        /\ log' = <<Resolved(Shape(data))>>
                  \o (IF ParseThrows(data)
                      THEN <<ConsoleWarn("Error parsing NEA response:")>> ELSE <<>>)
                  \o renderWeatherLog(weatherData)
                  \o <<Announce(UpdatedMsg)>>
        /\ inflight' = Remove(inflight, i)

\* The mutant has an ordering guard: a response to a request older than the
\* one the cache entry came from is dropped
ResumeUnlessOlder(i, data) ==
    LET weatherData == parseNEAResponse(data, clock)
        older == inflight[i].now < lastFetchTime
    IN  /\ weatherCache' = IF older THEN weatherCache ELSE Some(weatherData)
        /\ lastFetchTime' = IF older THEN lastFetchTime ELSE inflight[i].now
        /\ display' = IF older THEN display ELSE renderWeather(weatherData)
        /\ log' = <<Resolved(Shape(data))>>
                  \o (IF ParseThrows(data)
                      THEN <<ConsoleWarn("Error parsing NEA response:")>> ELSE <<>>)
                  \o (IF older THEN <<>>
                      ELSE renderWeatherLog(weatherData) \o <<Announce(UpdatedMsg)>>)
        /\ inflight' = Remove(inflight, i)

\* The mutant assigns weatherCache and leaves lastFetchTime as it was
ResumeCacheOnly(i, data) ==
    LET weatherData == parseNEAResponse(data, clock)
    IN  /\ weatherCache' = Some(weatherData)
        /\ lastFetchTime' = lastFetchTime
        /\ display' = renderWeather(weatherData)
        /\ log' = <<Resolved(Shape(data))>>
                  \o (IF ParseThrows(data)
                      THEN <<ConsoleWarn("Error parsing NEA response:")>> ELSE <<>>)
                  \o renderWeatherLog(weatherData)
                  \o <<Announce(UpdatedMsg)>>
        /\ inflight' = Remove(inflight, i)

\* The rest of the try block, for the execution inflight[i], once
\* response.json() has resolved with data
Resume(i, data) ==
    LET weatherData == parseNEAResponse(data, clock)
    IN  /\ weatherCache' = Some(weatherData)
        /\ lastFetchTime' = inflight[i].now
        /\ display' = renderWeather(weatherData)
        /\ log' = <<Resolved(Shape(data))>>
                  \o (IF ParseThrows(data)
                      THEN <<ConsoleWarn("Error parsing NEA response:")>> ELSE <<>>)
                  \o renderWeatherLog(weatherData)
                  \o <<Announce(UpdatedMsg)>>
        /\ inflight' = Remove(inflight, i)

\* The first await of the execution inflight[i] settles.  fetch() rejects,
\* or resolves with a response that is not ok (the throw at !response.ok), or
\* with one that is ok: response.json() is then called and the execution is
\* suspended again, having written and printed nothing.
FetchSettles(i, outcome) ==
    /\ i \in 1..Len(inflight)
    /\ inflight[i].awaiting = "fetch"
    /\ CASE outcome = "reject" -> Catch(i, NetworkError)
         [] outcome = "status" -> Catch(i, StatusError)
         [] outcome = "ok" ->
              /\ inflight' = [inflight EXCEPT ![i] = AwaitingJson(inflight[i].now)]
              /\ log' = <<>>
              /\ UNCHANGED <<weatherCache, lastFetchTime, display>>
    /\ UNCHANGED <<clock, weatherGrid, timeoutId, timers, intervalDue, burst>>

\* The second await of the execution inflight[i] settles: response.json()
\* rejects (the body is not JSON) or resolves with data
JsonSettles(i, data) ==
    /\ i \in 1..Len(inflight)
    /\ inflight[i].awaiting = "json"
    /\ IF data.json = "malformed" THEN Catch(i, SyntaxError) ELSE Resume(i, data)
    /\ UNCHANGED <<clock, weatherGrid, timeoutId, timers, intervalDue, burst>>

----------------------------------------------------------------------------
(* Scheduling: init, the interval, the debounced loadWeatherData, and time *)

\* The mutant starts the interval without the immediate fetchWeather call
WMInitWithoutFetch ==
    /\ intervalDue = NoTimer
    /\ log' = <<>>
    /\ intervalDue' = clock + WEATHER_CACHE_TIME
    /\ UNCHANGED <<clock, weatherGrid, weatherCache, lastFetchTime, timeoutId, timers,
                   burst, inflight, display>>

\* weatherManager.init(), called by App.init() right after the constructor
WMInit ==
    /\ intervalDue = NoTimer
    /\ fetchWeather
    /\ log' = fetchWeatherLog
    /\ intervalDue' = clock + WEATHER_CACHE_TIME
    /\ UNCHANGED <<clock, weatherGrid, weatherCache, lastFetchTime, timeoutId, timers, burst>>

\* A tick of setInterval(() => this.fetchWeather(), WEATHER_CACHE_TIME)
IntervalTick ==
    /\ intervalDue # NoTimer
    /\ clock = intervalDue
    /\ fetchWeather
    /\ log' = fetchWeatherLog
    /\ intervalDue' = intervalDue + WEATHER_CACHE_TIME
    /\ UNCHANGED <<clock, weatherGrid, weatherCache, lastFetchTime, timeoutId, timers, burst>>

\* A call of the debounced this.loadWeatherData()
LoadWeatherData ==
    /\ intervalDue # NoTimer
    /\ burst < MaxBurst
    /\ clock + DEBOUNCE_DELAY \in Instants
    /\ timers' = clearTimeout(timers, timeoutId) \cup {clock + DEBOUNCE_DELAY}
    /\ timeoutId' = clock + DEBOUNCE_DELAY
    /\ burst' = burst + 1
    /\ log' = <<>>
    /\ UNCHANGED <<clock, weatherGrid, weatherCache, lastFetchTime, intervalDue,
                   inflight, display>>

\* The callback of a debounce timer, which ends a burst of n calls
TimerFired(n) == Ev("setTimeout callback", ToString(n), <<>>)

\* A debounce timer fires: () => func.apply(this, args)
DebounceFire(t) ==
    /\ t \in timers
    /\ clock = t
    /\ timers' = timers \ {t}
    /\ fetchWeather
    /\ log' = <<TimerFired(burst)>> \o fetchWeatherLog
    /\ burst' = 0
    /\ UNCHANGED <<clock, weatherGrid, weatherCache, lastFetchTime, timeoutId, intervalDue>>

Deadlines == timers \cup (IF intervalDue = NoTimer THEN {} ELSE {intervalDue})

\* Time passes to the next sampled instant, never past a pending timer
Advance(t) ==
    /\ intervalDue # NoTimer
    /\ t > clock
    /\ \A u \in Instants : u > clock => t <= u
    /\ \A d \in Deadlines : t <= d
    /\ clock' = t
    /\ log' = <<>>
    /\ UNCHANGED <<weatherGrid, weatherCache, lastFetchTime, timeoutId, timers,
                   intervalDue, inflight, display, burst>>

----------------------------------------------------------------------------

Init ==
    /\ clock = StartTime
    /\ weatherGrid \in BOOLEAN
    /\ weatherCache = Null
    /\ lastFetchTime = 0
    /\ timeoutId = NoTimer
    /\ timers = {}
    /\ intervalDue = NoTimer
    /\ inflight = <<>>
    /\ display = InitialHTML
    /\ log = <<>>
    /\ burst = 0

Next ==
    \/ WMInit
    \/ IntervalTick
    \/ LoadWeatherData
    \/ \E t \in Instants : DebounceFire(t)
    \/ \E t \in Instants : Advance(t)
    \/ \E i \in 1..MaxInFlight, o \in FetchOutcomes : FetchSettles(i, o)
    \/ \E i \in 1..MaxInFlight, b \in Bodies : JsonSettles(i, b)

Spec == Init /\ [][Next]_vars

\* The page as app.js runs it: nothing calls loadWeatherData, so fetchWeather
\* is called by init and by the interval only.  Every request is answered,
\* or fails, less than WEATHER_CACHE_TIME after it was issued: time does not
\* reach that instant while the request is in flight.
AdvanceWithinLatency(t) ==
    /\ \A i \in 1..Len(inflight) : (t - inflight[i].now) < WEATHER_CACHE_TIME
    /\ Advance(t)

NextSchedule ==
    \/ WMInit
    \/ IntervalTick
    \/ \E t \in Instants : AdvanceWithinLatency(t)
    \/ \E i \in 1..MaxInFlight, o \in FetchOutcomes : FetchSettles(i, o)
    \/ \E i \in 1..MaxInFlight, b \in Bodies : JsonSettles(i, b)

SpecSchedule == Init /\ [][NextSchedule]_vars

----------------------------------------------------------------------------
(* Reading the log of the last handler *)

HasKind(l, kind) == \E i \in 1..Len(l) : l[i].kind = kind
Has(l, e) == \E i \in 1..Len(l) : l[i] = e
Count(l, kind) == Cardinality({i \in 1..Len(l) : l[i].kind = kind})
Renders(l) == {i \in 1..Len(l) : l[i].kind = "renderWeather"}

\* The last handler was a fetchWeather execution that returned on a cache hit
HitLogged == Has(log, ConsoleLog("Using cached weather data"))
\* The last handler ran the catch block of fetchWeather
CatchLogged == HasKind(log, "console.error")
\* The last handler ran a fetchWeather execution to its end
CompletedLogged == HitLogged \/ HasKind(log, "announceToScreenReader")

\* The forecast text contains the keyword, in any letter case
Contains(forecast, k) == includes(toLowerCase(Spell(forecast)), Spell(k))

----------------------------------------------------------------------------
(* C1: a fetchWeather execution that starts while a cache entry exists and  *)
(* is younger than WEATHER_CACHE_TIME issues no request, renders the cached *)
(* records and leaves weatherCache and lastFetchTime as they were.          *)

C1_FreshCacheIsReused ==
    [][ ( /\ HasKind(log', "fetchWeather")
          /\ ~weatherCache.null
          /\ (clock - lastFetchTime) < WEATHER_CACHE_TIME )
        => ( /\ ~HasKind(log', "fetch")
             /\ inflight' = inflight
             /\ \E i \in 1..Len(log') :
                    /\ log'[i].kind = "renderWeather"
                    /\ log'[i].data = weatherCache.data
             /\ weatherGrid =>
                    display' = [kind |-> "cards", cards |-> WeatherCards(weatherCache.data)]
             /\ weatherCache' = weatherCache
             /\ lastFetchTime' = lastFetchTime ) ]_vars

\* A cache hit has just rendered a cached 4-day forecast
C1_Witness ==
    /\ HitLogged
    /\ weatherGrid
    /\ Len(weatherCache.data) = 4
    /\ display = [kind |-> "cards", cards |-> WeatherCards(weatherCache.data)]
    /\ clock > lastFetchTime

----------------------------------------------------------------------------
(* C2: when the transport fails (fetch rejects, or the status is not 2xx)   *)
(* and there is no cache entry, the 4 simulated entries are rendered.       *)

C2_SimulatedOnFailureWithoutCache ==
    ( /\ Has(log, ConsoleError(NetworkError)) \/ Has(log, ConsoleError(StatusError))
      /\ weatherCache.null )
    => /\ \E i \in Renders(log) : log[i].data = getSimulatedWeather
       /\ weatherGrid =>
              display = [kind |-> "cards", cards |-> WeatherCards(getSimulatedWeather)]

----------------------------------------------------------------------------
(* C3: a 2xx response with items: [] and no cache entry is handled like a   *)
(* failure: the degraded notification, not 'Weather forecast updated', and  *)
(* weatherCache and lastFetchTime unchanged.                                *)

C3_EmptyItemsIsAFailure ==
    [][ ( /\ Has(log', Resolved("items: []"))
          /\ weatherCache.null )
        => ( /\ Has(log', Announce(DegradedMsg))
             /\ ~Has(log', Announce(UpdatedMsg))
             /\ weatherCache' = weatherCache
             /\ lastFetchTime' = lastFetchTime ) ]_vars

----------------------------------------------------------------------------
(* C4: a forecast text that contains both "thunder" and "rain", and none of *)
(* sunny/fine/partly/cloudy/overcast, is mapped to Thundery.                *)

C4_ThunderBeforeRain ==
    \A i \in 1..Len(weatherCache.data) :
        LET rec == weatherCache.data[i]
        IN  ( /\ Contains(rec.forecast, "thunder")
              /\ Contains(rec.forecast, "rain")
              /\ \A k \in {"sunny", "fine", "partly", "cloudy", "overcast"} :
                     ~Contains(rec.forecast, k) )
            => rec.condition = "Thundery"

----------------------------------------------------------------------------
(* C5: when a request fails and a cache entry exists, the catch block emits *)
(* the degraded notification and then renders the cached entries; it never  *)
(* renders the simulated forecast or the placeholder.                       *)

C5_FailureRendersCache ==
    [][ ( /\ HasKind(log', "console.error")
          /\ ~weatherCache.null )
        => ( /\ \E a \in 1..Len(log'), r \in 1..Len(log') :
                    /\ log'[a] = Announce(DegradedMsg)
                    /\ log'[r].kind = "renderWeather"
                    /\ log'[r].data = weatherCache.data
                    /\ a < r
             /\ Count(log', "renderWeather") = 1
             /\ \A r \in Renders(log') : log'[r].data # getSimulatedWeather
             /\ ~HasKind(log', "renderWeatherFallback")
             /\ ~Has(log', Announce(UpdatedMsg))
             /\ weatherGrid =>
                    display' = [kind |-> "cards", cards |-> WeatherCards(weatherCache.data)]
             /\ display' # PlaceholderHTML
             /\ display' # [kind |-> "cards", cards |-> WeatherCards(getSimulatedWeather)]
             /\ weatherCache' = weatherCache ) ]_vars

----------------------------------------------------------------------------
(* C6: a fetchWeather execution that starts with no cache entry, or with    *)
(* one whose age is WEATHER_CACHE_TIME or more, issues exactly one request; *)
(* no other handler issues any.  An age of exactly 600000 ms is stale.      *)

C6_StaleCacheIsRefetched ==
    [][ /\ ( /\ HasKind(log', "fetchWeather")
             /\ weatherCache.null \/ (clock - lastFetchTime) >= WEATHER_CACHE_TIME )
           => ( /\ Count(log', "fetch") = 1
                /\ inflight' = Append(inflight, AwaitingFetch(clock)) )
        /\ ~HasKind(log', "fetchWeather")
           => ( /\ Count(log', "fetch") = 0
                /\ Len(inflight') <= Len(inflight) ) ]_vars

\* A request was just issued with a cache entry aged exactly WEATHER_CACHE_TIME
C6_Witness ==
    /\ Has(log, Request)
    /\ ~weatherCache.null
    /\ inflight # <<>>
    /\ inflight[Len(inflight)].now = clock
    /\ clock - lastFetchTime = WEATHER_CACHE_TIME

----------------------------------------------------------------------------
(* C7: the calls of a burst of loadWeatherData calls are coalesced: while   *)
(* the burst is pending exactly one timer is, due DEBOUNCE_DELAY after the  *)
(* last call, and when it fires fetchWeather is executed once and no timer  *)
(* of the burst is left.                                                    *)

C7_BurstRunsOnce ==
    /\ [](timers # {} => (timers = {timeoutId} /\ burst >= 1 /\ clock <= timeoutId))
    /\ [](timers = {} => burst = 0)
    /\ [][ /\ burst' > burst
              => ( /\ timeoutId' = clock + DEBOUNCE_DELAY
                   /\ timers' = {timeoutId'}
                   /\ ~HasKind(log', "fetchWeather") )
           /\ HasKind(log', "setTimeout callback")
              => ( /\ clock = timeoutId
                   /\ timers = {timeoutId}
                   /\ timers' = {}
                   /\ Has(log', TimerFired(burst))
                   /\ Count(log', "fetchWeather") = 1 ) ]_vars

\* Two calls Gap = 50 ms apart have been run as one fetchWeather execution,
\* 300 ms after the second
C7_Witness ==
    /\ Has(log, TimerFired(2))
    /\ Count(log, "fetchWeather") = 1
    /\ timers = {}
    /\ clock = StartTime + Gap + DEBOUNCE_DELAY
    /\ clock = timeoutId

----------------------------------------------------------------------------
(* C8: every fetchWeather execution ends with something rendered on the     *)
(* display (no exception is modelled: none can escape the two try blocks).  *)
(* Stated for a page that has the weather-grid element.                     *)

C8_AlwaysRendersSomething ==
    (CompletedLogged /\ weatherGrid)
    => \/ display = PlaceholderHTML
       \/ display.kind = "cards" /\ Len(display.cards) > 0

----------------------------------------------------------------------------
(* C9: the placeholder ('Unable to fetch live weather data...') is never    *)
(* what the display shows.                                                  *)

C9_PlaceholderUnreachable == display # PlaceholderHTML

----------------------------------------------------------------------------
(* C10: the cache entry, when present, holds exactly 4 records, and every   *)
(* rendering of forecast records renders exactly 4.                         *)

C10_AlwaysFourDays ==
    /\ ~weatherCache.null => Len(weatherCache.data) = 4
    /\ \A i \in Renders(log) : Len(log[i].data) = 4
    /\ display.kind = "cards" => Len(display.cards) = 4

----------------------------------------------------------------------------
(* C11: weatherCache and lastFetchTime are never seen half-updated: either  *)
(* both have their initial values (null, 0), or both were assigned by the   *)
(* same completion of a request: a step that changes either of them is the  *)
(* completion of one suspended execution, which stores the records it       *)
(* renders and its own start time, whatever other executions are in flight. *)

C11_CacheUpdatedAsAPair ==
    /\ [](weatherCache.null <=> lastFetchTime = 0)
    /\ [][ (weatherCache' # weatherCache \/ lastFetchTime' # lastFetchTime)
           => ( /\ HasKind(log', "response.json")
                /\ ~weatherCache'.null
                /\ \E r \in Renders(log') : weatherCache'.data = log'[r].data
                /\ \E i \in 1..Len(inflight) :
                       /\ lastFetchTime' = inflight[i].now
                       /\ inflight' = Remove(inflight, i) ) ]_vars

\* A request has just completed and written the pair while another execution
\* is still suspended
C11_Witness ==
    /\ Has(log, Announce(UpdatedMsg))
    /\ inflight # <<>>
    /\ ~weatherCache.null
    /\ lastFetchTime >= StartTime
    /\ lastFetchTime < clock

----------------------------------------------------------------------------
(* C12: a forecast text that contains "sunny" or "fine", in any letter      *)
(* case and whatever other keywords it contains, has the condition Sunny    *)
(* and the sun emoji.  Stated of the records parseNEAResponse builds.       *)

C12_SunnyAndFineComeFirst ==
    \A i \in 1..Len(weatherCache.data) :
        LET rec == weatherCache.data[i]
        IN  (Contains(rec.forecast, "sunny") \/ Contains(rec.forecast, "fine"))
            => (rec.condition = "Sunny" /\ rec.emoji = "sun")

\* A text with the rain keyword ahead of sunny has been mapped
C12_Witness ==
    \E i \in 1..Len(weatherCache.data) :
          /\ weatherCache.data[i].forecast = "Rain then sunny"
          /\ Contains("Rain then sunny", "rain")
          /\ weatherCache.data[i].condition = "Sunny"
          /\ weatherCache.data[i].emoji = "sun"

----------------------------------------------------------------------------
(* C13: whenever a request fails and the catch block falls back to the      *)
(* cache entry, the entry it renders is at most WEATHER_CACHE_TIME old at   *)
(* that moment (its age is counted from lastFetchTime).                     *)

C13_FallbackCacheIsFresh ==
    ( /\ CatchLogged
      /\ ~weatherCache.null
      /\ \E r \in Renders(log) : log[r].data = weatherCache.data )
    => (clock - lastFetchTime) <= WEATHER_CACHE_TIME

----------------------------------------------------------------------------
(* C14: init calls fetchWeather once at startup and starts the interval;    *)
(* from then on a tick is due every WEATHER_CACHE_TIME, none is skipped,    *)
(* and each tick calls fetchWeather once, whatever is in flight.  A failed  *)
(* request starts nothing and sets no timer: fetchWeather is only called by *)
(* init, by a tick, or by the timer of a loadWeatherData call.              *)

C14_RefreshSchedule ==
    /\ [](intervalDue # NoTimer
          => /\ \E k \in 1..(MaxPeriods + 2) :
                    intervalDue = StartTime + k * WEATHER_CACHE_TIME
             /\ clock <= intervalDue
             /\ intervalDue - clock <= WEATHER_CACHE_TIME)
    /\ [][ /\ (intervalDue = NoTimer /\ intervalDue' # NoTimer)
              => ( /\ Count(log', "fetchWeather") = 1
                   /\ intervalDue' = clock + WEATHER_CACHE_TIME )
           /\ (intervalDue # NoTimer /\ intervalDue' # intervalDue)
              => ( /\ clock = intervalDue
                   /\ intervalDue' = intervalDue + WEATHER_CACHE_TIME
                   /\ Count(log', "fetchWeather") = 1 )
           /\ HasKind(log', "fetchWeather")
              => (intervalDue' # intervalDue \/ HasKind(log', "setTimeout callback"))
           /\ HasKind(log', "console.error")
              => ( /\ ~HasKind(log', "fetchWeather")
                   /\ ~HasKind(log', "fetch")
                   /\ Len(inflight') = Len(inflight) - 1
                   /\ timers' = timers
                   /\ intervalDue' = intervalDue ) ]_vars

\* The first tick has just issued a request while the request of init is
\* still in flight
C14_Witness ==
    /\ clock = StartTime + WEATHER_CACHE_TIME
    /\ intervalDue = StartTime + 2 * WEATHER_CACHE_TIME
    /\ Has(log, CallFetchWeather)
    /\ Has(log, Request)
    /\ Len(inflight) = 2
    /\ inflight[1].now = StartTime
    /\ inflight[2].now = clock

----------------------------------------------------------------------------
(* C15: the condition and the emoji of a record are chosen by the same      *)
(* keyword rule: the pair is one of Sunny/sun, Partly Cloudy/sun behind     *)
(* cloud, Cloudy/cloud, Thundery/thunderstorm, Showers/rain cloud,          *)
(* Rainy/rain cloud, Windy/wind, or the text itself with the default emoji. *)

C15_ConditionAndEmojiAgree ==
    \A i \in 1..Len(weatherCache.data) :
        LET rec == weatherCache.data[i]
        IN  \/ <<rec.condition, rec.emoji>> \in
                  { <<"Sunny", "sun">>,
                    <<"Partly Cloudy", "sun behind cloud">>,
                    <<"Cloudy", "cloud">>,
                    <<"Thundery", "thunderstorm">>,
                    <<"Showers", "rain cloud">>,
                    <<"Rainy", "rain cloud">>,
                    <<"Windy", "wind">> }
            \/ rec.condition = rec.forecast /\ rec.emoji = "sun behind small cloud"

----------------------------------------------------------------------------
(* C16: among overlapping executions the last write wins: every response    *)
(* that is read successfully is rendered and replaces the cache entry and   *)
(* lastFetchTime, whether its request was started before or after the one   *)
(* the present entry came from.  No execution is cancelled: one leaves the  *)
(* set of suspended executions only by its own completion or failure.       *)

C16_LastCompletionWins ==
    [][ /\ HasKind(log', "response.json")
           => ( /\ Has(log', Announce(UpdatedMsg))
                /\ \E r \in Renders(log') :
                       /\ weatherCache' = Some(log'[r].data)
                       /\ weatherGrid =>
                              display' = [kind |-> "cards",
                                          cards |-> WeatherCards(log'[r].data)]
                /\ \E i \in 1..Len(inflight) :
                       /\ lastFetchTime' = inflight[i].now
                       /\ inflight' = Remove(inflight, i) )
        /\ Len(inflight') < Len(inflight)
           => ( /\ Len(inflight') = Len(inflight) - 1
                /\ HasKind(log', "response.json") \/ HasKind(log', "console.error") )
        /\ HasKind(log', "fetchWeather")
           => (inflight' = inflight \/ inflight' = Append(inflight, AwaitingFetch(clock)))
      ]_vars

\* Two requests overlapped and the one started later was answered first; the
\* one started earlier is still suspended, and its answer will overwrite this
C16_Witness ==
    /\ Has(log, Announce(UpdatedMsg))
    /\ Len(inflight) = 1
    /\ inflight[1].now < lastFetchTime
    /\ weatherCache.data # getSimulatedWeather
    /\ Len(weatherCache.data) = 4

----------------------------------------------------------------------------
(* C17: a request that fails (fetch rejects, the status is not 2xx, or the  *)
(* body is not JSON) leaves weatherCache and lastFetchTime as they were;    *)
(* no step but the successful reading of a response writes either field.    *)

C17_OnlySuccessWritesCache ==
    [][ /\ HasKind(log', "console.error")
           => (weatherCache' = weatherCache /\ lastFetchTime' = lastFetchTime)
        /\ ~HasKind(log', "response.json")
           => (weatherCache' = weatherCache /\ lastFetchTime' = lastFetchTime) ]_vars

\* A request has just failed with status 503 and the entry of the first
\* request of the page is still cached
C17_Witness ==
    /\ Has(log, ConsoleError(StatusError))
    /\ ~weatherCache.null
    /\ weatherCache.data # getSimulatedWeather
    /\ lastFetchTime = StartTime
    /\ clock >= StartTime + WEATHER_CACHE_TIME

----------------------------------------------------------------------------
(* C18 (under SpecSchedule: init and the interval only, every latency below *)
(* WEATHER_CACHE_TIME): at most one request is in flight at any time, and   *)
(* every tick that finds a cache entry finds it WEATHER_CACHE_TIME old or   *)
(* older, and issues a request instead of rendering the entry.              *)

C18_TicksNeverOverlapAndAlwaysFetch ==
    /\ [](Len(inflight) <= 1)
    /\ [][ ( /\ intervalDue # NoTimer
             /\ intervalDue' # intervalDue
             /\ ~weatherCache.null )
           => ( /\ (clock - lastFetchTime) >= WEATHER_CACHE_TIME
                /\ Has(log', Request)
                /\ ~Has(log', ConsoleLog("Using cached weather data"))
                /\ ~HasKind(log', "renderWeather")
                /\ inflight = <<>>
                /\ inflight' = <<AwaitingFetch(clock)>> ) ]_vars

\* The first tick has just issued a request, the entry cached by the request
\* of init being exactly WEATHER_CACHE_TIME old
C18_Witness ==
    /\ Has(log, Request)
    /\ clock = StartTime + WEATHER_CACHE_TIME
    /\ intervalDue = clock + WEATHER_CACHE_TIME
    /\ ~weatherCache.null
    /\ lastFetchTime = StartTime
    /\ inflight = <<AwaitingFetch(clock)>>

----------------------------------------------------------------------------
(* C19: renderWeather fills the grid with exactly one card per record it is *)
(* given, in order, and each card shows the record's day name, date, emoji, *)
(* condition and raw forecast text.  Stated for a page that has the         *)
(* weather-grid element.                                                    *)

C19_CardShowsTheRecord ==
    \A r \in Renders(log) :
        LET data == log[r].data
        IN  weatherGrid
            => /\ display.kind = "cards"
               /\ Len(display.cards) = Len(data)
               /\ \A j \in 1..Len(data) :
                      /\ display.cards[j].h4 = data[j].day
                      /\ display.cards[j].ariaLabel = data[j].day
                      /\ display.cards[j].date = data[j].date
                      /\ display.cards[j].emoji = data[j].emoji
                      /\ display.cards[j].condition = data[j].condition
                      /\ display.cards[j].text = data[j].forecast

----------------------------------------------------------------------------
(* C20: the cache entry never holds the simulated forecast, and the         *)
(* simulated forecast is never rendered together with the announcement      *)
(* 'Weather forecast updated'.                                              *)

C20_SimulatedNeverCached ==
    /\ ~weatherCache.null => weatherCache.data # getSimulatedWeather
    /\ ~( /\ Has(log, Announce(UpdatedMsg))
          /\ \E r \in Renders(log) : log[r].data = getSimulatedWeather )

----------------------------------------------------------------------------
(* C21: lastFetchTime never decreases: every write stores a value greater   *)
(* than or equal to the one it replaces.                                    *)

C21_LastFetchTimeNeverDecreases ==
    [][ lastFetchTime' >= lastFetchTime ]_vars

(* C21 as amended: every write to lastFetchTime stores the instant at which *)
(* the completing execution started (the now it read before its request),   *)
(* never a later one; so the value never exceeds the clock, and it          *)
(* decreases exactly when the completing execution started before the one   *)
(* the present entry came from.                                             *)

C21_StoresOwnStartTime ==
    /\ [](lastFetchTime <= clock)
    /\ [][ /\ HasKind(log', "response.json")
              => \E i \in 1..Len(inflight) :
                     /\ inflight' = Remove(inflight, i)
                     /\ lastFetchTime' = inflight[i].now
                     /\ lastFetchTime' <= clock
                     /\ (lastFetchTime' < lastFetchTime) <=> (inflight[i].now < lastFetchTime)
           /\ lastFetchTime' < lastFetchTime
              => ( /\ HasKind(log', "response.json")
                   /\ ~weatherCache.null
                   /\ \E i \in 1..Len(inflight) : inflight[i].now < lastFetchTime ) ]_vars

\* The request of init has been answered after a debounce timer fired on an
\* empty cache, i.e. after a later request was issued, and the entry carries
\* the start time of init's request
C21_Witness ==
    /\ Has(log, Announce(UpdatedMsg))
    /\ inflight = <<>>
    /\ lastFetchTime = StartTime
    /\ timers = {}
    /\ timeoutId > lastFetchTime
    /\ clock >= timeoutId
    /\ clock < StartTime + WEATHER_CACHE_TIME

----------------------------------------------------------------------------
(* C22: whenever the notification 'Could not load weather data. Showing     *)
(* cached data.' is emitted, a cache entry exists and it is what the        *)
(* execution then renders.                                                  *)

C22_DegradedNoticeMeansCacheShown ==
    Has(log, Announce(DegradedMsg))
    => ( /\ ~weatherCache.null
         /\ \E r \in Renders(log) : log[r].data = weatherCache.data
         /\ ~HasKind(log, "renderWeatherFallback") )

====
